---- MODULE Spec2Model ----
(***************************************************************************)
(* The Conclave net layer (src/src/lib.rs): `send` turns a Room into the   *)
(* octets of a RoomInfoCommand, `receive` decodes one ServerReceiveCommand *)
(* from an octet stream and applies it to the addressed connection.        *)
(*                                                                         *)
(* A u64 does not fit a TLC integer, so a u64 value is held as five limbs  *)
(* of four decimal digits each (base 10000), most significant first: the   *)
(* limbs read left to right are the decimal numeral of the value.  It is   *)
(* computed from the octets by multiply-and-add, the way an integer is     *)
(* assembled from its bytes.                                               *)
(***************************************************************************)
EXTENDS Integers, Sequences, FiniteSets, TLC

VARIABLES room, op, connection_id, buffer, result, ping_command,
          room_info_command, octets, repeated

vars == <<room, op, connection_id, buffer, result, ping_command,
          room_info_command, octets, repeated>>

(* ------------------------------ bounds --------------------------------- *)

MaxConnections == 2

MaxTerm == 1

MaxNow == 0

(* ----------------------------- constants ------------------------------- *)

PING_COMMAND_TYPE_ID == 255

PingDatagramLength == 12

U64Limbs == 5

LimbBase == 10000

NoLeader == 0

RoomInfoEndMarker == 255

(* ------------------------- u64 as decimal limbs ------------------------ *)

ZeroU64 == [i \in 1..U64Limbs |-> 0]

RECURSIVE MulAdd(_, _, _, _)
MulAdd(digits, factor, carry, i) ==
    IF i = 0 THEN digits
    ELSE LET v == digits[i] * factor + carry
         IN  MulAdd([digits EXCEPT ![i] = v % LimbBase], factor, v \div LimbBase, i - 1)

RECURSIVE Reverse(_)
Reverse(s) == IF s = <<>> THEN <<>> ELSE Append(Reverse(Tail(s)), Head(s))

Front(s) == SubSeq(s, 1, Len(s) - 1)

RECURSIVE FromBigEndian(_)
FromBigEndian(s) ==
    IF s = <<>> THEN ZeroU64
    ELSE MulAdd(FromBigEndian(Front(s)), 256, s[Len(s)], U64Limbs)

(* ------------------------- the octet stream ---------------------------- *)
(* flood_rs reads in one byte order for every width.  tests::on_ping       *)
(* expects knowledge 17718865395771014920 from F5 E6 0E 32 E9 E4 7F 08,    *)
(* which is the most-significant-octet-first reading.                      *)

read_u64_le(s) == FromBigEndian(Reverse(s))

read_u64(s) == FromBigEndian(s)

read_u16(s) == s[1] * 256 + s[2]

write_u16(v) == <<v \div 256, v % 256>>

(* --------------------- conclave_room_serialize ------------------------- *)
(* The decoder reads the tag, then term, knowledge and the flag, and fails *)
(* when the stream ends early or the tag is not registered.  The encoder   *)
(* writes term, leader_index, the client infos when there are any, and the *)
(* end marker.                                                             *)

DecodeError(kind) == [ok |-> FALSE, error |-> kind, command |-> <<>>]

PingCommand_from_cursor(reader) ==
    IF Len(reader) < PingDatagramLength
    THEN DecodeError("MalformedPayload")
    ELSE [ok |-> TRUE, error |-> "",
          command |-> <<[term |-> read_u16(SubSeq(reader, 2, 3)),
                         knowledge |-> read_u64(SubSeq(reader, 4, 11)),
                         has_connection_to_leader |-> reader[12] # 0]>>]

from_cursor(reader) ==
    IF Len(reader) < 1 THEN DecodeError("MalformedPayload")
    ELSE IF reader[1] # PING_COMMAND_TYPE_ID
         THEN DecodeError("UnknownCommandType")
         ELSE PingCommand_from_cursor(reader)

RECURSIVE ClientInfoOctets(_)
ClientInfoOctets(infos) ==
    IF infos = <<>> THEN <<>>
    ELSE <<Head(infos)>> \o ClientInfoOctets(Tail(infos))

to_octets(command) ==
    write_u16(command.term) \o <<command.leader_index>>
    \o (IF command.client_infos = <<>> THEN <<>>
        ELSE <<Len(command.client_infos)>> \o ClientInfoOctets(command.client_infos))
    \o <<RoomInfoEndMarker>>

(* --------------------------- conclave_room ----------------------------- *)
(* The Room collaborator: connection ids are handed out from 1, on_ping    *)
(* overwrites the addressed connection's knowledge and leader flag; what   *)
(* it does with term and now is its own bookkeeping and is not kept here.  *)

NoConnections == [c \in {} |-> 0]

Room_new == [term |-> 0, leader_index |-> NoLeader, connections |-> NoConnections]

Connection_new == [knowledge |-> ZeroU64, has_connection_to_leader |-> FALSE]

create_connection(self, now) ==
    LET id == Cardinality(DOMAIN self.connections) + 1
    IN  [self EXCEPT !.connections =
            [c \in DOMAIN self.connections \cup {id} |->
                IF c = id THEN Connection_new ELSE self.connections[c]]]

on_ping_accumulate(self, id, term, has_connection_to_leader, knowledge, now) ==
    [self EXCEPT !.connections[id] =
        [knowledge |-> [i \in 1..U64Limbs |-> (@.knowledge[i] + knowledge[i]) % LimbBase],
         has_connection_to_leader |-> has_connection_to_leader]]

on_ping(self, id, term, has_connection_to_leader, knowledge, now) ==
    [self EXCEPT !.connections[id] =
        [knowledge |-> knowledge,
         has_connection_to_leader |-> has_connection_to_leader]]

(* ------------------------------ lib.rs --------------------------------- *)
(* receive returns Err only from the lookup; the decoder's result is       *)
(* unwrapped, so a decode failure is a panic: result "panic", after which  *)
(* the caller takes no further step.                                       *)

ConnectionKeys(self) ==
    LET RECURSIVE Keys(_)
        Keys(n) == IF n = 0 THEN <<>>
                   ELSE IF n \in DOMAIN self.connections
                        THEN Append(Keys(n - 1), n) ELSE Keys(n - 1)
    IN  Keys(MaxConnections + 1)

RoomInfoCommand_client_infos(self) ==
    [term |-> self.term, leader_index |-> self.leader_index,
     client_infos |-> ConnectionKeys(self)]

RoomInfoCommand_leader_unset(self) ==
    [term |-> self.term, leader_index |-> 255, client_infos |-> <<>>]

RoomInfoCommand(self) ==
    [term |-> self.term, leader_index |-> self.leader_index, client_infos |-> <<>>]

send(self) == to_octets(RoomInfoCommand(self))

Applied(self, id, command, now) ==
    on_ping(self, id, command.term, command.has_connection_to_leader,
            command.knowledge, now)

receive_unchecked(self, id, now, reader) ==
    LET decoded == from_cursor(reader)
    IN  IF ~decoded.ok
        THEN [result |-> "panic", room |-> self, command |-> <<>>]
        ELSE [result |-> "Ok", command |-> decoded.command,
              room |-> IF id \in DOMAIN self.connections
                       THEN Applied(self, id, decoded.command[1], now) ELSE self]

receive_flag_dropped(self, id, now, reader) ==
    IF id \notin DOMAIN self.connections
    THEN [result |-> "UnknownConnection", room |-> self, command |-> <<>>]
    ELSE LET decoded == from_cursor(reader)
         IN  IF ~decoded.ok
             THEN [result |-> "panic", room |-> self, command |-> <<>>]
             ELSE [result |-> "Ok", command |-> decoded.command,
                   room |-> on_ping(self, id, decoded.command[1].term, FALSE,
                                    decoded.command[1].knowledge, now)]

receive_first_connection(self, id, now, reader) ==
    IF id \notin DOMAIN self.connections
    THEN [result |-> "UnknownConnection", room |-> self, command |-> <<>>]
    ELSE LET decoded == from_cursor(reader)
         IN  IF ~decoded.ok
             THEN [result |-> "panic", room |-> self, command |-> <<>>]
             ELSE [result |-> "Ok", command |-> decoded.command,
                   room |-> Applied(self, 1, decoded.command[1], now)]

receive(self, id, now, reader) ==
    IF id \notin DOMAIN self.connections
    THEN [result |-> "UnknownConnection", room |-> self, command |-> <<>>]
    ELSE LET decoded == from_cursor(reader)
         IN  IF ~decoded.ok
             THEN [result |-> "panic", room |-> self, command |-> <<>>]
             ELSE [result |-> "Ok", command |-> decoded.command,
                   room |-> Applied(self, id, decoded.command[1], now)]

(* ------------------------------ inputs --------------------------------- *)

Fixture == <<255, 0, 32, 245, 230, 14, 50, 233, 228, 127, 8, 1>>

EXPECTED_KNOWLEDGE_VALUE == <<1771, 8865, 3957, 7101, 4920>>

FlagOctets == { 0, 1, 2 }

UnknownTags == { 0, 1 }

OtherPing == <<255, 1, 2, 0, 0, 0, 0, 0, 0, 1, 2, 0>>

PingDatagrams ==
    { [d EXCEPT ![PingDatagramLength] = f] : d \in { Fixture, OtherPing }, f \in FlagOctets }

Truncated == { SubSeq(Fixture, 1, n) : n \in 0..(PingDatagramLength - 1) }

UnknownTagged ==
    { <<t>> \o Tail(Fixture) : t \in UnknownTags } \cup { <<t>> : t \in UnknownTags }

Buffers == PingDatagrams \cup Truncated \cup UnknownTagged \cup { Fixture \o <<7>> }

ConnectionIds == 1..(MaxConnections + 1)

Instants == 0..MaxNow

(* --------------------------- state machine ----------------------------- *)

Alive == result # "panic"

Init ==
    /\ room = Room_new
    /\ op = "new"
    /\ connection_id = 0
    /\ buffer = <<>>
    /\ result = "none"
    /\ ping_command = <<>>
    /\ room_info_command = <<>>
    /\ octets = <<>>
    /\ repeated = FALSE

CreateConnection ==
    /\ Alive
    /\ Cardinality(DOMAIN room.connections) < MaxConnections
    /\ \E now \in Instants : room' = create_connection(room, now)
    /\ op' = "create_connection"
    /\ result' = "none"
    /\ repeated' = FALSE
    /\ connection_id' = 0
    /\ buffer' = <<>>
    /\ ping_command' = <<>>
    /\ room_info_command' = <<>>
    /\ octets' = <<>>

Election ==
    /\ Alive
    /\ room.term < MaxTerm
    /\ \E leader \in DOMAIN room.connections :
          room' = [room EXCEPT !.term = @ + 1, !.leader_index = leader]
    /\ op' = "election"
    /\ result' = "none"
    /\ repeated' = FALSE
    /\ connection_id' = 0
    /\ buffer' = <<>>
    /\ ping_command' = <<>>
    /\ room_info_command' = <<>>
    /\ octets' = <<>>

Send ==
    /\ Alive
    /\ room_info_command' = <<RoomInfoCommand(room)>>
    /\ octets' = send(room)
    /\ op' = "send"
    /\ result' = "none"
    /\ repeated' = FALSE
    /\ connection_id' = 0
    /\ buffer' = <<>>
    /\ ping_command' = <<>>
    /\ UNCHANGED room

Receive ==
    /\ Alive
    /\ \E id \in ConnectionIds, now \in Instants, reader \in Buffers :
          LET r == receive(room, id, now, reader)
          IN  /\ room' = r.room
              /\ result' = r.result
              /\ ping_command' = r.command
              /\ connection_id' = id
              /\ buffer' = reader
              /\ repeated' = (/\ op = "receive" /\ result = "Ok" /\ r.result = "Ok"
                              /\ connection_id = id /\ buffer = reader)
    /\ op' = "receive"
    /\ room_info_command' = <<>>
    /\ octets' = <<>>

Next == CreateConnection \/ Election \/ Send \/ Receive

Spec == Init /\ [][Next]_vars

(* ------------------------------ claims --------------------------------- *)

Known(id, self) == id \in DOMAIN self.connections

(* C1: a receive addressed to a connection id that is not a key of         *)
(* room.connections returns UnknownConnection, whatever the buffer holds,  *)
(* and leaves the Room (term, leader_index, every connection) as it was.   *)
C1_UnknownConnection ==
    [][(op' = "receive" /\ ~Known(connection_id', room))
          => (result' = "UnknownConnection" /\ room' = room)]_vars

C1_Witness ==
    /\ op = "receive" /\ ~Known(connection_id, room)
    /\ buffer = Fixture /\ result = "UnknownConnection"
    /\ DOMAIN room.connections # {}

(* C2: a buffer shorter than the 12-octet Ping datagram, received for a    *)
(* known connection, returns MalformedPayload as a value and leaves every  *)
(* connection as it was.                                                   *)
C2_Original ==
    [][(op' = "receive" /\ Known(connection_id', room)
        /\ Len(buffer') < PingDatagramLength)
          => (result' = "MalformedPayload"
              /\ room'.connections = room.connections)]_vars

(* C3: a buffer whose first octet is not the Ping tag, received for a      *)
(* known connection, returns UnknownCommandType as a value and leaves all  *)
(* connection state untouched.                                             *)
C3_Original ==
    [][(op' = "receive" /\ Known(connection_id', room)
        /\ Len(buffer') >= 1 /\ buffer'[1] # PING_COMMAND_TYPE_ID)
          => (result' = "UnknownCommandType"
              /\ room'.connections = room.connections)]_vars

(* C4: receive is total: every call completes with Ok or with an Err that  *)
(* classifies the failure; no input makes it panic, and no failure is      *)
(* reported as Ok.                                                         *)
C4_Original ==
    op = "receive" =>
        /\ result \in {"Ok", "UnknownConnection", "UnknownCommandType",
                       "MalformedPayload"}
        /\ (result = "Ok" =>
                (Known(connection_id, room) /\ from_cursor(buffer).ok))

(* C5: a well-formed 12-octet Ping received for a known connection returns *)
(* Ok, and afterwards that connection's knowledge and                      *)
(* has_connection_to_leader are the values decoded from the payload,       *)
(* whatever the connection held before.                                    *)
C5_PingApplied ==
    [][(op' = "receive" /\ Known(connection_id', room)
        /\ Len(buffer') = PingDatagramLength
        /\ buffer'[1] = PING_COMMAND_TYPE_ID)
          => /\ result' = "Ok"
             /\ Len(ping_command') = 1
             /\ room'.connections[connection_id'].knowledge
                    = ping_command'[1].knowledge
             /\ room'.connections[connection_id'].has_connection_to_leader
                    = ping_command'[1].has_connection_to_leader
             /\ ping_command'[1].has_connection_to_leader
                    = (buffer'[PingDatagramLength] # 0)]_vars

C5_Witness ==
    /\ op = "receive" /\ result = "Ok" /\ buffer = Fixture
    /\ Known(connection_id, room)
    /\ room.connections[connection_id].knowledge = EXPECTED_KNOWLEDGE_VALUE
    /\ room.connections[connection_id].has_connection_to_leader

OtherKnowledgeBigEndian == <<0, 0, 0, 0, 258>>

OtherKnowledgeLittleEndian == <<14, 4396, 6630, 5256, 6528>>

KnowledgeField(b) == SubSeq(b, 4, 11)

C7_NewRoomOctets ==
    (op = "send" /\ room = Room_new) => octets = <<0, 0, 0, 255>>

C7_Witness ==
    op = "send" /\ room = Room_new /\ octets = <<0, 0, 0, 255>>

(* C8: a successful receive of a Ping addressed to connection c changes no *)
(* connection other than c, and neither creates nor removes connections.   *)
C8_OtherConnectionsKept ==
    [][(op' = "receive" /\ result' = "Ok")
          => /\ DOMAIN room'.connections = DOMAIN room.connections
             /\ \A d \in DOMAIN room.connections \ {connection_id'} :
                    room'.connections[d] = room.connections[d]]_vars

C8_Witness ==
    /\ op = "receive" /\ result = "Ok"
    /\ \E d \in DOMAIN room.connections :
          /\ d # connection_id
          /\ room.connections[d] # Connection_new
          /\ room.connections[d] # room.connections[connection_id]

(* C9: dispatching the same Ping twice to the same known connection leaves *)
(* that connection's knowledge and has_connection_to_leader as one         *)
(* dispatch left them (overwrite, not accumulation).                       *)
C9_LastWriteWins ==
    [][(op = "receive" /\ result = "Ok" /\ op' = "receive" /\ result' = "Ok"
        /\ connection_id' = connection_id /\ buffer' = buffer)
          => room'.connections[connection_id'] = room.connections[connection_id]]_vars

C9_Witness ==
    /\ repeated /\ op = "receive" /\ result = "Ok"
    /\ room.connections[connection_id].knowledge = EXPECTED_KNOWLEDGE_VALUE

SingleConnection == [c \in {1} |-> Connection_new]

(* C10: send leaves the Room unchanged, always emits an empty client_infos *)
(* sequence, and its octets depend on term and leader_index only: a Room   *)
(* with the same term and leader_index and another connection table        *)
(* produces the same octets.                                               *)
C10_SendPure ==
    [][op' = "send"
          => /\ room' = room
             /\ room_info_command'[1].client_infos = <<>>
             /\ \A table \in {NoConnections, SingleConnection} :
                    octets' = send([room EXCEPT !.connections = table])]_vars

C10_Witness ==
    /\ op = "send" /\ room.term > 0 /\ room.leader_index # NoLeader
    /\ Cardinality(DOMAIN room.connections) >= 2
    /\ \E d \in DOMAIN room.connections : room.connections[d] # Connection_new
    /\ Len(octets) = 4

====
